---- MODULE Spec2Model ----
(***************************************************************************)
(* Sequence coordination and submission retry of jcc-jingtum-lib           *)
(* (src/src/index.ts): the Transaction facade operations, the protected    *)
(* submit loop, Wallet.sign, and the process-wide sequence cache           *)
(* swtcSequence they drive.                                                *)
(*                                                                         *)
(* Every "await" of the source is a suspension point: a facade call is a   *)
(* chain of steps, and the steps of concurrent calls interleave freely.    *)
(* An RPC is two steps, the node answering it and the client continuation  *)
(* running on the answer, so an answer may be computed early and be        *)
(* delivered late.                                                         *)
(*                                                                         *)
(* Two environments are given.  Spec drives the code with a scripted node: *)
(* any fetch value, any engine result, and collaborators that may raise.   *)
(* SpecNode drives it with a ledger node that accepts a transaction        *)
(* exactly when its sequence is the account's next on-ledger sequence.     *)
(* SpecLedger is SpecNode with failures: a fetch that raises, a blob        *)
(* refused for another reason than its sequence, an answer that is lost.   *)
(* SpecRaw runs sendRawTransaction next to one facade call.                *)
(***************************************************************************)
EXTENDS Integers, Sequences, FiniteSets, TLC

\* ----------------------------------------------------------------- bounds
MaxCalls == 2      \* facade calls issued in one run against the scripted node
MaxNodeCalls == 3  \* facade calls issued in one run against the ledger node
MaxRetry == 1      \* largest retry budget given to the constructor
MaxSeq   == 2      \* largest sequence number a scripted fetch answers
MaxHash  == 2      \* distinct transaction hashes a scripted node answers
MaxRaw   == 2      \* sendRawTransaction invocations in one run

Calls    == 1..(IF MaxCalls > MaxNodeCalls THEN MaxCalls ELSE MaxNodeCalls)
Accounts == {"A", "B"}

\* undefined: no cached sequence for the address / "let hash;" not yet assigned
Absent == 0
NoHash == 0

EngineResults == {"tesSUCCESS", "terPRE_SEQ", "tefPAST_SEQ", "temBAD_FEE", "undefined"}

NoRes  == [engine_result |-> "unset", hash |-> NoHash]
NoErr  == [kind |-> "none", res |-> NoRes]
NoBlob == [Account |-> "A", Id |-> 0, Sequence |-> Absent, TxnSignature |-> <<>>]

\* sendRawTransaction invocations, and one that was not made yet
Raws  == 1..MaxRaw
NoRaw == [pc |-> "idle", blob |-> NoBlob, res |-> NoRes, sends |-> 0,
          hash |-> NoHash, err |-> NoErr]

VARIABLES
  retryCfg,    \* Transaction.retry, set by the constructor
  cache,       \* swtcSequence: address -> cached sequence or Absent
  ledger,      \* the node: address -> next on-ledger sequence
  pc,          \* where each facade call stands
  tx,          \* the transaction description the facade built for the call
  retry,       \* submit's local "retry"
  sequence,    \* submit's local "sequence" of the running iteration
  fetched,     \* answer of the fetch RPC in flight
  blob,        \* signed.blob handed to submitTransaction
  res,         \* answer of the submit RPC in flight
  hash,        \* submit's local "hash"
  err,         \* the error thrown, on its way to the caller
  outcome,     \* what the caller got: "none", "hash" or "error"
  \* ---- history, read by no action
  sent,        \* blobs given to submitTransaction, in order
  seqs,        \* sequence numbers resolved, one per loop iteration, and
               \* whether the fetch function was called for it
  got,         \* node responses classified by the loop, in order
  peers,       \* other calls of the same account in flight at some time with it
  pred,        \* the account's last completed call when this one started alone
  lastDone,    \* per account, the call that completed last
  cacheAtEnd,  \* the account's cache entry when the call reached its caller
  accepts,     \* ledger acceptances of the call's transaction
  nextAtRead,  \* the account's next on-ledger sequence when the call's first
               \* sequence was resolved
  steps,       \* steps taken by and for the call
  given,       \* the transaction description as the facade handed it to submit
  configured,  \* the retry budget given to the constructor
  reads,       \* per loop iteration, the cache entry get saw and the entry
               \* it left when it answered
  own,         \* per account, the cache entry as the calls of that account
               \* left it
  raw          \* sendRawTransaction invocations

vars == <<retryCfg, cache, ledger, pc, tx, retry, sequence, fetched, blob, res,
          hash, err, outcome, sent, seqs, got, peers, pred, lastDone,
          cacheAtEnd, accepts, nextAtRead, steps, given, configured, reads,
          own, raw>>

hist == <<sent, seqs, got, peers, pred, lastDone, cacheAtEnd, accepts,
          nextAtRead>>

\* entries of seqs
Hit(s)  == [sequence |-> s, fetched |-> FALSE]
Miss(s) == [sequence |-> s, fetched |-> TRUE]

InFlight(c) == pc[c] \notin {"idle", "done"}
Account(c)  == tx[c].Account

\* ------------------------------------------------------------ swtcSequence
\* get, up to its first suspension: a hit answers the cached value, a miss
\* calls the fetch function.
get(cch, address) ==
  IF cch[address] # Absent
    THEN [pc |-> "resolved", sequence |-> cch[address]]
    ELSE [pc |-> "fetchSent", sequence |-> Absent]

\* get, resumed with the fetched value: write it into the cache
write(cch, address, value) == [cch EXCEPT ![address] = value]

\* rise: advance the entry by one; an absent entry stays absent
rise(cch, address) ==
  IF cch[address] # Absent THEN [cch EXCEPT ![address] = @ + 1] ELSE cch

\* reset: clear the entry
reset(cch, address) == [cch EXCEPT ![address] = Absent]

\* ------------------------------------------------------------------ submit
\* faulty variant: the fetch function is called whatever the cache holds
ResolveByFetch(cch, address) == [pc |-> "fetchSent", sequence |-> Absent]

\* await swtcSequence.get(Transaction.fetchSequence, tx.Account, node)
Resolve(cch, address) == get(cch, address)

IsSuccess(engine_result) == engine_result = "tesSUCCESS"

\* faulty variant: the budget is not counted down
DecrementNothing(r) == r

\* faulty variant: every failure is retried
IsSequenceErrorWide(engine_result) == engine_result # "tesSUCCESS"

IsSequenceError(engine_result) ==
  engine_result \in {"terPRE_SEQ", "tefPAST_SEQ"}

Decrement(r) == r - 1

\* faulty variant: the configured budget is counted down with the local one
CountDownShared(cfg, r) == [shared |-> cfg - 1, local |-> Decrement(r)]

\* this.retry and the local retry after "retry = retry - 1": the assignment
\* is to the local
CountDown(cfg, r) == [shared |-> cfg, local |-> Decrement(r)]

\* faulty variants: the budget test off by one, either way
ExhaustedEarly(r) == r <= 0

ExhaustedLate(r) == r < -1

Exhausted(r) == r < 0

\* faulty variant: the hash is read from a field the response does not have
ResponseHashMissing(r) == NoHash

\* res.result.tx_json.hash
ResponseHash(r) == r.hash

\* faulty variant: the error is raised without the response
EngineErrorBare(r) == [kind |-> "engine", res |-> NoRes]

\* throw new Error(JSON.stringify(res)): the error carries the response
EngineError(r) == [kind |-> "engine", res |-> r]

\* faulty variant: the resolved sequence is not written into the copy
StampNothing(t, s) == t

\* copyTx = Object.assign({}, tx); copyTx.Sequence = sequence
Stamp(t, s) == [t EXCEPT !.Sequence = s]

\* faulty variant: the sequence is written into the caller's object
StampInPlace(t, s) == [orig |-> Stamp(t, s), copy |-> Stamp(t, s)]

\* the caller's object and the copy after lines 554-556: the write goes to
\* the copy alone
StampCopy(t, s) == [orig |-> t, copy |-> Stamp(t, s)]

\* Wallet.sign: the signature covers every field of the copy it is given
sign(copyTx) ==
  LET signature == <<copyTx.Account, copyTx.Id, copyTx.Sequence>>
  IN  [hash |-> signature,
       blob |-> [Account      |-> copyTx.Account,
                 Id           |-> copyTx.Id,
                 Sequence     |-> copyTx.Sequence,
                 TxnSignature |-> signature]]

\* faulty variants: the cache bookkeeping left out
SuccessCacheKept(cch, address) == cch

RetryCacheKept(cch, address) == cch

CatchCacheKept(cch, address) == cch

\* faulty variant: the catch clears the entries of all accounts
CatchCacheAll(cch, address) == [a \in Accounts |-> Absent]

\* the facade's bookkeeping around submit, and the loop's on a sequence error
SuccessCache(cch, address) == rise(cch, address)

CatchCache(cch, address) == reset(cch, address)

RetryCache(cch, address) == reset(cch, address)

\* ---------------------------------------------------------------- the node
\* scripted node: any engine result; an accepted transaction carries a hash
Responses ==
  [engine_result : {"tesSUCCESS"}, hash : 1..MaxHash]
    \cup [engine_result : EngineResults \ {"tesSUCCESS"}, hash : {NoHash}]

\* ledger node: the hash of an accepted transaction names its content
TxHash(b) == 10 * b.Id + b.Sequence

LedgerVerdict(ldg, b) ==
  IF b.Sequence = ldg[b.Account] THEN "tesSUCCESS"
  ELSE IF b.Sequence < ldg[b.Account] THEN "tefPAST_SEQ"
  ELSE "terPRE_SEQ"

\* -------------------------------------------------------------------- Init
Init ==
  /\ retryCfg \in 0..MaxRetry
  /\ cache = [a \in Accounts |-> Absent]
  /\ ledger = [a \in Accounts |-> 1]
  /\ pc = [c \in Calls |-> "idle"]
  /\ tx = [c \in Calls |-> [Account |-> "A", Id |-> 0, Sequence |-> Absent]]
  /\ retry = [c \in Calls |-> 0]
  /\ sequence = [c \in Calls |-> Absent]
  /\ fetched = [c \in Calls |-> Absent]
  /\ blob = [c \in Calls |-> NoBlob]
  /\ res = [c \in Calls |-> NoRes]
  /\ hash = [c \in Calls |-> NoHash]
  /\ err = [c \in Calls |-> NoErr]
  /\ outcome = [c \in Calls |-> "none"]
  /\ sent = [c \in Calls |-> <<>>]
  /\ seqs = [c \in Calls |-> <<>>]
  /\ got = [c \in Calls |-> <<>>]
  /\ peers = [c \in Calls |-> {}]
  /\ pred = [c \in Calls |-> 0]
  /\ lastDone = [a \in Accounts |-> 0]
  /\ cacheAtEnd = [c \in Calls |-> Absent]
  /\ accepts = [c \in Calls |-> 0]
  /\ nextAtRead = [c \in Calls |-> 0]
  /\ steps = [c \in Calls |-> 0]
  /\ given = tx
  /\ configured = retryCfg
  /\ reads = [c \in Calls |-> <<>>]
  /\ own = cache
  /\ raw = [r \in Raws |-> NoRaw]

\* ----------------------------------------------------------------- actions
\* A facade operation (createOrder, transfer, ...) is called for account a:
\* it builds tx and enters submit, which runs to its first suspension.
Call(c, a) ==
  /\ pc[c] = "idle"
  /\ steps' = [steps EXCEPT ![c] = @ + 1]
  /\ \A d \in Calls : d < c => pc[d] # "idle"
  /\ LET g == Resolve(cache, a)
         others == {d \in Calls : InFlight(d) /\ Account(d) = a}
     IN  /\ tx' = [tx EXCEPT ![c] = [Account |-> a, Id |-> c, Sequence |-> Absent]]
         /\ retry' = [retry EXCEPT ![c] = retryCfg]
         /\ pc' = [pc EXCEPT ![c] = g.pc]
         /\ sequence' = [sequence EXCEPT ![c] = g.sequence]
         /\ seqs' = [seqs EXCEPT ![c] =
                       IF g.pc = "resolved" THEN <<Hit(g.sequence)>> ELSE <<>>]
         /\ peers' = [d \in Calls |-> IF d = c THEN others
                                      ELSE IF d \in others THEN peers[d] \cup {c}
                                      ELSE peers[d]]
         /\ pred' = [pred EXCEPT ![c] = IF others = {} THEN lastDone[a] ELSE 0]
         /\ nextAtRead' = [nextAtRead EXCEPT ![c] =
                             IF g.pc = "resolved" THEN ledger[a] ELSE @]
  /\ UNCHANGED <<retryCfg, cache, ledger, fetched, blob, res, hash, err, outcome,
                 sent, got, lastDone, cacheAtEnd, accepts>>
  /\ given' = [given EXCEPT ![c] = tx'[c]]
  /\ reads' = [reads EXCEPT ![c] = <<[saw |-> cache[a], left |-> cache[a]]>>]
  /\ own' = [own EXCEPT ![a] = cache'[a]]
  /\ UNCHANGED <<configured, raw>>

\* the scripted node answers the fetch RPC with any sequence number
FetchReply(c, v) ==
  /\ pc[c] = "fetchSent"
  /\ steps' = [steps EXCEPT ![c] = @ + 1]
  /\ pc' = [pc EXCEPT ![c] = "fetchReplied"]
  /\ fetched' = [fetched EXCEPT ![c] = v]
  /\ UNCHANGED <<retryCfg, cache, ledger, tx, retry, sequence, blob, res, hash,
                 err, outcome, hist>>
  /\ UNCHANGED <<given, configured, reads, own, raw>>

\* the ledger node answers the fetch RPC with the account's next sequence
NodeFetch(c) ==
  /\ pc[c] = "fetchSent"
  /\ steps' = [steps EXCEPT ![c] = @ + 1]
  /\ pc' = [pc EXCEPT ![c] = "fetchReplied"]
  /\ fetched' = [fetched EXCEPT ![c] = ledger[Account(c)]]
  /\ UNCHANGED <<retryCfg, cache, ledger, tx, retry, sequence, blob, res, hash,
                 err, outcome, hist>>
  /\ UNCHANGED <<given, configured, reads, own, raw>>

\* the fetch function raises: the error leaves get and submit unchanged
FetchFail(c) ==
  /\ pc[c] = "fetchSent"
  /\ steps' = [steps EXCEPT ![c] = @ + 1]
  /\ pc' = [pc EXCEPT ![c] = "threw"]
  /\ err' = [err EXCEPT ![c] = [kind |-> "fetch", res |-> NoRes]]
  /\ UNCHANGED <<retryCfg, cache, ledger, tx, retry, sequence, fetched, blob, res,
                 hash, outcome, hist>>
  /\ UNCHANGED <<given, configured, reads, own, raw>>

\* get resumes with the fetched value, caches it and answers it
FetchDone(c) ==
  /\ pc[c] = "fetchReplied"
  /\ steps' = [steps EXCEPT ![c] = @ + 1]
  /\ cache' = write(cache, Account(c), fetched[c])
  /\ sequence' = [sequence EXCEPT ![c] = fetched[c]]
  /\ pc' = [pc EXCEPT ![c] = "resolved"]
  /\ seqs' = [seqs EXCEPT ![c] = Append(@, Miss(fetched[c]))]
  /\ nextAtRead' = [nextAtRead EXCEPT ![c] =
                      IF seqs[c] = <<>> THEN ledger[Account(c)] ELSE @]
  /\ UNCHANGED <<retryCfg, ledger, tx, retry, fetched, blob, res, hash, err,
                 outcome, sent, got, peers, pred, lastDone, cacheAtEnd, accepts>>
  /\ reads' = [reads EXCEPT ![c] =
                 [k \in 1..Len(reads[c]) |->
                    IF k = Len(reads[c])
                      THEN [reads[c][k] EXCEPT !.left = cache'[Account(c)]]
                      ELSE reads[c][k]]]
  /\ own' = [own EXCEPT ![Account(c)] = cache'[Account(c)]]
  /\ UNCHANGED <<given, configured, raw>>

\* submit resumes with the sequence: stamp a copy, sign it, send the blob
SignAndSend(c) ==
  /\ pc[c] = "resolved"
  /\ steps' = [steps EXCEPT ![c] = @ + 1]
  /\ LET stamped == StampCopy(tx[c], sequence[c])
         copyTx == stamped.copy
         signed == sign(copyTx)
     IN  /\ tx' = [tx EXCEPT ![c] = stamped.orig]
         /\ blob' = [blob EXCEPT ![c] = signed.blob]
         /\ sent' = [sent EXCEPT ![c] = Append(@, signed.blob)]
  /\ pc' = [pc EXCEPT ![c] = "submitSent"]
  /\ UNCHANGED <<retryCfg, cache, ledger, retry, sequence, fetched, res, hash,
                 err, outcome, seqs, got, peers, pred, lastDone, cacheAtEnd, accepts,
                 nextAtRead>>
  /\ UNCHANGED <<given, configured, reads, own, raw>>

\* Wallet.sign raises (a secret the wallet rejects)
SignFail(c) ==
  /\ pc[c] = "resolved"
  /\ steps' = [steps EXCEPT ![c] = @ + 1]
  /\ pc' = [pc EXCEPT ![c] = "threw"]
  /\ err' = [err EXCEPT ![c] = [kind |-> "sign", res |-> NoRes]]
  /\ UNCHANGED <<retryCfg, cache, ledger, tx, retry, sequence, fetched, blob, res,
                 hash, outcome, hist>>
  /\ UNCHANGED <<given, configured, reads, own, raw>>

\* the scripted node answers the submit RPC with any response
SubmitReply(c, r) ==
  /\ pc[c] = "submitSent"
  /\ steps' = [steps EXCEPT ![c] = @ + 1]
  /\ pc' = [pc EXCEPT ![c] = "submitReplied"]
  /\ res' = [res EXCEPT ![c] = r]
  /\ UNCHANGED <<retryCfg, cache, ledger, tx, retry, sequence, fetched, blob, hash,
                 err, outcome, hist>>
  /\ UNCHANGED <<given, configured, reads, own, raw>>

\* the ledger node applies the blob: accepted exactly when its sequence is
\* the account's next one, which then moves on by one
NodeSubmit(c) ==
  /\ pc[c] = "submitSent"
  /\ steps' = [steps EXCEPT ![c] = @ + 1]
  /\ LET b == blob[c]
         verdict == LedgerVerdict(ledger, b)
     IN  /\ res' = [res EXCEPT ![c] =
                      [engine_result |-> verdict,
                       hash |-> IF verdict = "tesSUCCESS" THEN TxHash(b) ELSE NoHash]]
         /\ ledger' = IF verdict = "tesSUCCESS"
                        THEN [ledger EXCEPT ![b.Account] = @ + 1] ELSE ledger
         /\ accepts' = [accepts EXCEPT ![c] =
                          IF verdict = "tesSUCCESS" THEN @ + 1 ELSE @]
  /\ pc' = [pc EXCEPT ![c] = "submitReplied"]
  /\ UNCHANGED <<retryCfg, cache, tx, retry, sequence, fetched, blob, hash, err,
                 outcome, sent, seqs, got, peers, pred, lastDone, cacheAtEnd,
                 nextAtRead>>
  /\ UNCHANGED <<given, configured, reads, own, raw>>

\* submitTransaction raises
SubmitFail(c) ==
  /\ pc[c] = "submitSent"
  /\ steps' = [steps EXCEPT ![c] = @ + 1]
  /\ pc' = [pc EXCEPT ![c] = "threw"]
  /\ err' = [err EXCEPT ![c] = [kind |-> "submit", res |-> NoRes]]
  /\ UNCHANGED <<retryCfg, cache, ledger, tx, retry, sequence, fetched, blob, res,
                 hash, outcome, hist>>
  /\ UNCHANGED <<given, configured, reads, own, raw>>

\* the ledger node refuses the blob for a reason other than its sequence
\* and applies nothing
NodeReject(c) ==
  /\ pc[c] = "submitSent"
  /\ steps' = [steps EXCEPT ![c] = @ + 1]
  /\ res' = [res EXCEPT ![c] = [engine_result |-> "temBAD_FEE", hash |-> NoHash]]
  /\ pc' = [pc EXCEPT ![c] = "submitReplied"]
  /\ UNCHANGED <<retryCfg, cache, ledger, tx, retry, sequence, fetched, blob, hash,
                 err, outcome, hist>>
  /\ UNCHANGED <<given, configured, reads, own, raw>>

\* the ledger node applies the blob as in NodeSubmit, but its answer does not
\* arrive: submitTransaction raises
NodeSubmitLost(c) ==
  /\ pc[c] = "submitSent"
  /\ steps' = [steps EXCEPT ![c] = @ + 1]
  /\ LET b == blob[c]
         verdict == LedgerVerdict(ledger, b)
     IN  /\ ledger' = IF verdict = "tesSUCCESS"
                        THEN [ledger EXCEPT ![b.Account] = @ + 1] ELSE ledger
         /\ accepts' = [accepts EXCEPT ![c] =
                          IF verdict = "tesSUCCESS" THEN @ + 1 ELSE @]
  /\ pc' = [pc EXCEPT ![c] = "threw"]
  /\ err' = [err EXCEPT ![c] = [kind |-> "submit", res |-> NoRes]]
  /\ UNCHANGED <<retryCfg, cache, tx, retry, sequence, fetched, blob, res, hash,
                 outcome, sent, seqs, got, peers, pred, lastDone, cacheAtEnd,
                 nextAtRead>>
  /\ UNCHANGED <<given, configured, reads, own, raw>>

\* submit resumes with the response and classifies its engine result; on a
\* sequence error with budget left it runs on into the next iteration, up to
\* get's first suspension
SubmitDone(c) ==
  /\ pc[c] = "submitReplied"
  /\ steps' = [steps EXCEPT ![c] = @ + 1]
  /\ LET a == Account(c)
         engine_result == res[c].engine_result
         ok == IsSuccess(engine_result)
         fatal == ~ok /\ ~IsSequenceError(engine_result)
         counted == CountDown(retryCfg, retry[c])
         retry2 == IF ok \/ fatal THEN retry[c] ELSE counted.local
         cache2 == IF ok \/ fatal THEN cache ELSE RetryCache(cache, a)
         hash2 == IF ok THEN ResponseHash(res[c]) ELSE hash[c]
         throws == fatal \/ (~ok /\ Exhausted(retry2))
         loops == ~throws /\ hash2 = NoHash
         g == Resolve(cache2, a)
     IN  /\ retry' = [retry EXCEPT ![c] = retry2]
         /\ retryCfg' = IF ok \/ fatal THEN retryCfg ELSE counted.shared
         /\ cache' = cache2
         /\ hash' = [hash EXCEPT ![c] = hash2]
         /\ err' = [err EXCEPT ![c] =
                      IF throws THEN EngineError(res[c]) ELSE @]
         /\ pc' = [pc EXCEPT ![c] =
                     IF throws THEN "threw" ELSE IF loops THEN g.pc ELSE "returned"]
         /\ sequence' = [sequence EXCEPT ![c] = IF loops THEN g.sequence ELSE @]
         /\ seqs' = [seqs EXCEPT ![c] =
                       IF loops /\ g.pc = "resolved" THEN Append(@, Hit(g.sequence)) ELSE @]
         /\ reads' = [reads EXCEPT ![c] =
                        IF loops THEN Append(@, [saw |-> cache2[a], left |-> cache2[a]])
                        ELSE @]
  /\ got' = [got EXCEPT ![c] = Append(@, res[c])]
  /\ UNCHANGED <<ledger, tx, fetched, blob, res, outcome, sent, peers,
                 pred, lastDone, cacheAtEnd, accepts,
                 nextAtRead>>
  /\ own' = [own EXCEPT ![Account(c)] = cache'[Account(c)]]
  /\ UNCHANGED <<given, configured, raw>>

\* the facade resumes with submit's hash: advance the cache, return the hash
FacadeReturn(c) ==
  /\ pc[c] = "returned"
  /\ steps' = [steps EXCEPT ![c] = @ + 1]
  /\ cache' = SuccessCache(cache, Account(c))
  /\ outcome' = [outcome EXCEPT ![c] = "hash"]
  /\ pc' = [pc EXCEPT ![c] = "done"]
  /\ cacheAtEnd' = [cacheAtEnd EXCEPT ![c] = cache'[Account(c)]]
  /\ lastDone' = [lastDone EXCEPT ![Account(c)] = c]
  /\ UNCHANGED <<retryCfg, ledger, tx, retry, sequence, fetched, blob, res, hash,
                 err, sent, seqs, got, peers, pred, accepts,
                 nextAtRead>>
  /\ own' = [own EXCEPT ![Account(c)] = cache'[Account(c)]]
  /\ UNCHANGED <<given, configured, reads, raw>>

\* the facade catches what submit threw: clear the cache, throw it on
FacadeCatch(c) ==
  /\ pc[c] = "threw"
  /\ steps' = [steps EXCEPT ![c] = @ + 1]
  /\ cache' = CatchCache(cache, Account(c))
  /\ outcome' = [outcome EXCEPT ![c] = "error"]
  /\ pc' = [pc EXCEPT ![c] = "done"]
  /\ cacheAtEnd' = [cacheAtEnd EXCEPT ![c] = cache'[Account(c)]]
  /\ lastDone' = [lastDone EXCEPT ![Account(c)] = c]
  /\ UNCHANGED <<retryCfg, ledger, tx, retry, sequence, fetched, blob, res, hash,
                 err, sent, seqs, got, peers, pred, accepts,
                 nextAtRead>>
  /\ own' = [own EXCEPT ![Account(c)] = cache'[Account(c)]]
  /\ UNCHANGED <<given, configured, reads, raw>>

\* ------------------------------------------------------ sendRawTransaction
\* a response without a "result" member
NoResult == [engine_result |-> "noResult", hash |-> NoHash]

\* what the scripted node answers to a raw submission
RawResponses == Responses \cup {NoResult}

\* blobs a caller hands to sendRawTransaction: signed elsewhere
RawBlobs ==
  {sign([Account |-> a, Id |-> 0, Sequence |-> 1]).blob : a \in Accounts}

\* faulty variant: the sequence errors are not raised
RawRejectedFatalOnly(engine_result) ==
  engine_result \notin {"tesSUCCESS", "terPRE_SEQ", "tefPAST_SEQ"}

\* engine_result !== "tesSUCCESS"
RawRejected(engine_result) == engine_result # "tesSUCCESS"

\* throw new Error(JSON.stringify(res))
RawError(r) == [kind |-> "engine", res |-> r]

\* reading res.result.engine_result of a response without "result"
RawTypeError == [kind |-> "type", res |-> NoRes]

\* sendRawTransaction is called with a blob and hands it to submitTransaction
RawCall(r, b) ==
  /\ raw[r].pc = "idle"
  /\ \A q \in Raws : q < r => raw[q].pc # "idle"
  /\ raw' = [raw EXCEPT ![r] = [@ EXCEPT !.pc = "submitSent", !.blob = b,
                                          !.sends = @ + 1]]
  /\ UNCHANGED <<retryCfg, cache, ledger, pc, tx, retry, sequence, fetched, blob,
                 res, hash, err, outcome, hist, steps, given, configured, reads,
                 own>>

\* the scripted node answers the raw submission with any response
RawReply(r, response) ==
  /\ raw[r].pc = "submitSent"
  /\ raw' = [raw EXCEPT ![r] = [@ EXCEPT !.pc = "submitReplied", !.res = response]]
  /\ UNCHANGED <<retryCfg, cache, ledger, pc, tx, retry, sequence, fetched, blob,
                 res, hash, err, outcome, hist, steps, given, configured, reads,
                 own>>

\* submitTransaction raises: the error leaves sendRawTransaction unchanged
RawFail(r) ==
  /\ raw[r].pc = "submitSent"
  /\ raw' = [raw EXCEPT ![r] = [@ EXCEPT !.pc = "done",
                                          !.err = [kind |-> "submit", res |-> NoRes]]]
  /\ UNCHANGED <<retryCfg, cache, ledger, pc, tx, retry, sequence, fetched, blob,
                 res, hash, err, outcome, hist, steps, given, configured, reads,
                 own>>

\* sendRawTransaction resumes with the response: hash or error
RawDone(r) ==
  /\ raw[r].pc = "submitReplied"
  /\ LET response == raw[r].res
         engine_result == response.engine_result
     IN  raw' = [raw EXCEPT ![r] =
                   IF response = NoResult
                     THEN [@ EXCEPT !.pc = "done", !.err = RawTypeError]
                   ELSE IF RawRejected(engine_result)
                     THEN [@ EXCEPT !.pc = "done", !.err = RawError(response)]
                   ELSE [@ EXCEPT !.pc = "done", !.hash = ResponseHash(response)]]
  /\ UNCHANGED <<retryCfg, cache, ledger, pc, tx, retry, sequence, fetched, blob,
                 res, hash, err, outcome, hist, steps, given, configured, reads,
                 own>>

\* ---------------------------------------------------------- specifications
\* the client steps of a call, shared by both environments
Client(c) ==
  \/ FetchDone(c)
  \/ SignAndSend(c)
  \/ SubmitDone(c)
  \/ FacadeReturn(c)
  \/ FacadeCatch(c)

Next ==
  \/ \E c \in 1..MaxCalls, a \in Accounts : Call(c, a)
  \/ \E c \in Calls, v \in 1..MaxSeq : FetchReply(c, v)
  \/ \E c \in Calls : FetchFail(c)
  \/ \E c \in Calls : SignFail(c)
  \/ \E c \in Calls, r \in Responses : SubmitReply(c, r)
  \/ \E c \in Calls : SubmitFail(c)
  \/ \E c \in Calls : Client(c)

Spec == Init /\ [][Next]_vars

NextNode ==
  \/ \E c \in 1..MaxNodeCalls, a \in Accounts : Call(c, a)
  \/ \E c \in Calls : NodeFetch(c)
  \/ \E c \in Calls : NodeSubmit(c)
  \/ \E c \in Calls : Client(c)

SpecNode == Init /\ [][NextNode]_vars

\* the ledger node with failures: a fetch that raises, a blob refused for
\* another reason than its sequence, an answer that is lost
NextLedger ==
  \/ NextNode
  \/ \E c \in Calls : FetchFail(c)
  \/ \E c \in Calls : NodeReject(c)
  \/ \E c \in Calls : NodeSubmitLost(c)

SpecLedger == Init /\ [][NextLedger]_vars

\* raw submissions next to one facade call, both answered by the scripted node
RawCalls == {1}

NextRaw ==
  \/ \E r \in Raws, b \in RawBlobs : RawCall(r, b)
  \/ \E r \in Raws, response \in RawResponses : RawReply(r, response)
  \/ \E r \in Raws : RawFail(r)
  \/ \E r \in Raws : RawDone(r)
  \/ \E c \in RawCalls, a \in Accounts : Call(c, a)
  \/ \E c \in RawCalls, v \in 1..MaxSeq : FetchReply(c, v)
  \/ \E c \in RawCalls, r \in Responses : SubmitReply(c, r)
  \/ \E c \in RawCalls : Client(c)

SpecRaw == Init /\ [][NextRaw]_vars

\* Every RPC of a call is answered (or fails) and every continuation of a
\* call is run; nothing obliges a caller to issue a call.
Progress(c) ==
  \/ \E v \in 1..MaxSeq : FetchReply(c, v)
  \/ FetchFail(c)
  \/ SignFail(c)
  \/ \E r \in Responses : SubmitReply(c, r)
  \/ SubmitFail(c)
  \/ Client(c)

FairSpec == Spec /\ \A c \in Calls : WF_vars(Progress(c))

ProgressNode(c) == NodeFetch(c) \/ NodeSubmit(c) \/ Client(c)

FairSpecNode == SpecNode /\ \A c \in Calls : WF_vars(ProgressNode(c))

\* ------------------------------------------------------------------ claims
SeqCodes == {"terPRE_SEQ", "tefPAST_SEQ"}

Attempts(c) == Len(sent[c])

Ended(c) == pc[c] \in {"threw", "done"}

\* every response the loop has classified so far is a sequence error
OnlySeqErrors(c) ==
  /\ Len(got[c]) >= 1
  /\ \A i \in 1..Len(got[c]) : got[c][i].engine_result \in SeqCodes

LastOf(q) == q[Len(q)]

\* C1: one invocation of submit makes at most retryBudget + 1 submission
\* attempts; when every response is terPRE_SEQ or tefPAST_SEQ it raises after
\* exactly retryBudget + 1 attempts, and the raise is not delayed past them.
C1_AtMostBudgetPlusOne ==
  \A c \in Calls :
    /\ Attempts(c) <= retryCfg + 1
    /\ (OnlySeqErrors(c) /\ Len(got[c]) = retryCfg + 1)
          => (Ended(c) /\ err[c].kind = "engine" /\ outcome[c] # "hash")
    /\ (OnlySeqErrors(c) /\ err[c].kind = "engine") => Attempts(c) = retryCfg + 1

C1_Witness ==
  \E c \in Calls :
    /\ retryCfg >= 1
    /\ OnlySeqErrors(c)
    /\ Attempts(c) = retryCfg + 1
    /\ pc[c] = "done" /\ outcome[c] = "error"

\* C2: a response whose engine result is neither tesSUCCESS nor a sequence
\* error (a missing engine result included) is the last one of the call: the
\* loop raises on it, with that response, and resolves and submits no more,
\* whatever budget is left; as the first response it leaves one attempt made.
C2_FatalShortCircuit ==
  \A c \in Calls : \A i \in 1..Len(got[c]) :
    got[c][i].engine_result \notin ({"tesSUCCESS"} \cup SeqCodes)
      => /\ i = Len(got[c])
         /\ Attempts(c) = i
         /\ Len(seqs[c]) = i
         /\ Ended(c)
         /\ err[c] = [kind |-> "engine", res |-> got[c][i]]
         /\ outcome[c] # "hash"

C2_Witness ==
  \E c \in Calls :
    /\ Len(got[c]) = 1
    /\ got[c][1].engine_result = "undefined"
    /\ retry[c] >= 1
    /\ Attempts(c) = 1
    /\ pc[c] = "done" /\ outcome[c] = "error"

\* C3 as stated: a call that returned a hash returned the hash of its
\* tesSUCCESS response and left the account's cache entry one above the
\* sequence stamped on the accepted transaction.
C3_Original ==
  \A c \in Calls :
    outcome[c] = "hash"
      => /\ hash[c] = LastOf(got[c]).hash
         /\ cacheAtEnd[c] = LastOf(sent[c]).Sequence + 1

\* C3 amended: the hash is that of the tesSUCCESS response; the cache entry
\* is one above the stamped sequence when no other call of the account was
\* in flight during the call.
C3_SuccessAdvances ==
  \A c \in Calls :
    outcome[c] = "hash"
      => /\ LastOf(got[c]).engine_result = "tesSUCCESS"
         /\ hash[c] = LastOf(got[c]).hash
         /\ hash[c] # NoHash
         /\ peers[c] = {} => cacheAtEnd[c] = LastOf(sent[c]).Sequence + 1

C3_Witness ==
  \E c \in Calls :
    /\ outcome[c] = "hash"
    /\ peers[c] = {}
    /\ hash[c] = MaxHash
    /\ cacheAtEnd[c] = LastOf(sent[c]).Sequence + 1

\* C4: a call running alone on an empty cache whose responses are
\* [sequence error, tesSUCCESS] under a budget >= 1 fetches twice, submits
\* the second fetched value on the second attempt, returns the hash of the
\* second response and leaves the second fetched value plus one in the cache.
C4_Scenario(c) ==
  /\ peers[c] = {}
  /\ Len(seqs[c]) >= 1 /\ seqs[c][1].fetched
  /\ Len(got[c]) = 2
  /\ got[c][1].engine_result \in SeqCodes
  /\ got[c][2].engine_result = "tesSUCCESS"

C4_RetryThenSucceed ==
  \A c \in Calls :
    C4_Scenario(c)
      => /\ retryCfg >= 1
         /\ Len(seqs[c]) = 2 /\ seqs[c][2].fetched
         /\ Attempts(c) = 2
         /\ sent[c][2].Sequence = seqs[c][2].sequence
         /\ pc[c] \in {"returned", "done"}
         /\ hash[c] = got[c][2].hash
         /\ pc[c] = "done"
              => (outcome[c] = "hash" /\ cacheAtEnd[c] = seqs[c][2].sequence + 1)

C4_Witness ==
  \E c \in Calls :
    /\ C4_Scenario(c)
    /\ got[c][1].engine_result = "tefPAST_SEQ"
    /\ seqs[c][1].sequence = 1 /\ seqs[c][2].sequence = 2
    /\ pc[c] = "done" /\ cacheAtEnd[c] = 3

\* C5: a failed call leaves its account's cache entry absent when the error
\* reaches the caller; the account's next call, started with no other call
\* of the account in flight, calls the fetch function before its first
\* attempt and stamps that attempt with the value fetched.
AfterFailure(c) == pred[c] # 0 /\ outcome[pred[c]] = "error"

C5_FreshAfterFailure ==
  \A c \in Calls :
    /\ (pc[c] = "done" /\ outcome[c] = "error") => cacheAtEnd[c] = Absent
    /\ AfterFailure(c)
         => /\ Len(seqs[c]) >= 1 => seqs[c][1].fetched
            /\ (InFlight(c) /\ seqs[c] = <<>>)
                  => pc[c] \in {"fetchSent", "fetchReplied", "threw"}
            /\ Attempts(c) >= 1
                  => (seqs[c][1].fetched /\ sent[c][1].Sequence = seqs[c][1].sequence)

C5_Witness ==
  \E c \in Calls :
    /\ AfterFailure(c)
    /\ err[pred[c]].kind = "engine"
    /\ LastOf(got[pred[c]]).engine_result = "temBAD_FEE"
    /\ Attempts(c) >= 1
    /\ sent[c][1].Sequence # sent[pred[c]][1].Sequence

\* C6: the blob of every attempt carries the sequence resolved in its own
\* loop iteration under a signature made over that sequence; a retry whose
\* sequence differs submits a different blob, and equal blobs are attempts
\* of equal sequence.
C6_SignedPerIteration ==
  \A c \in Calls :
    /\ Attempts(c) <= Len(seqs[c])
    /\ \A k \in 1..Attempts(c) :
         /\ sent[c][k].Sequence = seqs[c][k].sequence
         /\ sent[c][k].TxnSignature = <<tx[c].Account, tx[c].Id, seqs[c][k].sequence>>
         /\ (k > 1 /\ seqs[c][k].sequence # seqs[c][k - 1].sequence)
               => sent[c][k] # sent[c][k - 1]
         /\ \A j \in 1..k : sent[c][j] = sent[c][k]
               => seqs[c][j].sequence = seqs[c][k].sequence

C6_Witness ==
  \E c \in Calls :
    /\ Attempts(c) = 2
    /\ seqs[c][1].sequence # seqs[c][2].sequence
    /\ sent[c][1] # sent[c][2]

\* C7: under every stream of node responses a call that was issued ends, and
\* ends in exactly one way: its caller holds a hash and no error, or an error
\* and no hash; a tesSUCCESS response is the last response of its call and no
\* attempt follows it.
C7_OneOutcome ==
  \A c \in Calls :
    /\ outcome[c] = "none" <=> pc[c] # "done"
    /\ outcome[c] = "hash" => (hash[c] # NoHash /\ err[c].kind = "none")
    /\ outcome[c] = "error" => (hash[c] = NoHash /\ err[c].kind # "none")
    /\ \A i \in 1..Len(got[c]) :
         got[c][i].engine_result = "tesSUCCESS"
           => (i = Len(got[c]) /\ Attempts(c) = i /\ pc[c] \in {"returned", "done"})

\* a call is over after at most five steps for each of its retryBudget + 1
\* loop iterations (fetch answered, get resumed, blob sent, submit answered,
\* response classified) and two more for the facade, and while it is not
\* over its next step can be taken: the loop neither runs on nor hangs
C7_EndsOneWay ==
  /\ C7_OneOutcome
  /\ \A c \in Calls :
       /\ steps[c] <= 5 * (retryCfg + 1) + 2
       /\ InFlight(c) => ENABLED Progress(c)

\* the same as a temporal formula, for FairSpec
C7_Terminates ==
  \A c \in Calls : InFlight(c) ~> (pc[c] = "done" /\ outcome[c] \in {"hash", "error"})

C7_Witness ==
  \E c, d \in Calls :
    /\ retryCfg >= 1
    /\ pc[c] = "done" /\ outcome[c] = "hash" /\ Attempts(c) = retryCfg + 1
    /\ pc[d] = "done" /\ outcome[d] = "error" /\ Attempts(d) = retryCfg + 1

\* C8 as stated: with a budget of 0 a first sequence error is followed by a
\* second attempt before submit raises.
C8_Original ==
  \A c \in Calls :
    (retryCfg = 0 /\ Len(got[c]) >= 1 /\ got[c][1].engine_result \in SeqCodes
       /\ Ended(c))
      => Attempts(c) >= 2

\* C8 amended: with a budget of 0 submit permits no retry: it raises on the
\* first sequence error, with that response, after one attempt.
C8_ZeroBudgetNoRetry ==
  \A c \in Calls :
    (retryCfg = 0 /\ Len(got[c]) >= 1 /\ got[c][1].engine_result \in SeqCodes)
      => /\ Attempts(c) = 1
         /\ Len(got[c]) = 1
         /\ Ended(c)
         /\ err[c] = [kind |-> "engine", res |-> got[c][1]]
         /\ outcome[c] # "hash"

C8_Witness ==
  \E c \in Calls :
    /\ retryCfg = 0
    /\ Len(got[c]) = 1 /\ got[c][1].engine_result = "terPRE_SEQ"
    /\ Attempts(c) = 1
    /\ pc[c] = "done" /\ outcome[c] = "error"

\* C9: against the ledger node the transaction of a call is accepted at most
\* once, a call that returned a hash was accepted exactly once, and the
\* ledger moved on by exactly one per accepted call.
C9_AcceptedAtMostOnce ==
  /\ \A c \in Calls :
       /\ accepts[c] <= 1
       /\ outcome[c] = "hash" => accepts[c] = 1
  /\ \A a \in Accounts :
       ledger[a] = 1 + Cardinality({c \in Calls : Account(c) = a /\ accepts[c] >= 1})

C9_Witness ==
  \E c, d \in Calls :
    /\ c # d /\ Account(c) = Account(d)
    /\ outcome[c] = "hash" /\ Attempts(c) = 2 /\ accepts[c] = 1
    /\ outcome[d] = "hash" /\ accepts[d] = 1

\* c and d are calls of one account whose first attempts carried the same
\* sequence, and d is the only call that was ever in flight together with c
Raced(c, d) ==
  /\ c # d
  /\ peers[c] = {d}
  /\ Attempts(c) >= 1 /\ Attempts(d) >= 1
  /\ sent[c][1].Sequence = sent[d][1].Sequence

\* C10 as stated: with a budget >= 1, a call that raced one other call on the
\* same first sequence returns a hash.
C10_Original ==
  \A c, d \in Calls :
    (retryCfg >= 1 /\ Raced(c, d) /\ pc[c] = "done") => outcome[c] = "hash"

\* the sequence of the race was the account's next on-ledger sequence when c
\* and d read it, and the ledger accepted it from d
WonBy(c, d) ==
  /\ Raced(c, d)
  /\ nextAtRead[c] = sent[c][1].Sequence
  /\ nextAtRead[d] = sent[d][1].Sequence
  /\ Attempts(d) = 1 /\ accepts[d] = 1

\* C10 amended: when the raced sequence is the account's next on-ledger
\* sequence, so that the node accepts it from one of the two, the other is
\* answered tefPAST_SEQ, clears the cache, fetches again and, with a budget
\* >= 1 and no third call of the account in flight with it, is accepted on
\* its second attempt: both calls return a hash.
C10_LoserRetries ==
  \A c, d \in Calls :
    (retryCfg >= 1 /\ WonBy(c, d))
      => /\ Len(got[c]) >= 1 => got[c][1].engine_result = "tefPAST_SEQ"
         /\ Len(seqs[c]) >= 2
              => seqs[c][2] = Miss(sent[d][1].Sequence + 1)
         /\ Attempts(c) <= 2
         /\ Len(got[c]) >= 2 => got[c][2].engine_result = "tesSUCCESS"
         /\ pc[c] = "done" => (outcome[c] = "hash" /\ Attempts(c) = 2)
         /\ pc[d] = "done" => outcome[d] = "hash"
         /\ InFlight(c) => ENABLED ProgressNode(c)
         /\ InFlight(d) => ENABLED ProgressNode(d)

\* the same as a temporal formula, for FairSpecNode
C10_BothReturn ==
  \A c, d \in Calls :
    (retryCfg >= 1 /\ WonBy(c, d))
      ~> (\/ outcome[c] = "hash" /\ outcome[d] = "hash"
          \/ peers[c] # {d})

C10_Witness ==
  \E c, d \in Calls :
    /\ retryCfg >= 1 /\ WonBy(c, d)
    /\ seqs[c][1] = Hit(sent[d][1].Sequence)
    /\ seqs[d][1].fetched = FALSE
    /\ outcome[c] = "hash" /\ outcome[d] = "hash"

\* C11: an error raised on an engine result carries the response of the last
\* attempt of its call: on exhaustion the response of attempt retryBudget + 1,
\* on a non-sequence result the response that carried it.
C11_CarriesLastResponse ==
  \A c \in Calls :
    err[c].kind = "engine"
      => /\ Len(got[c]) >= 1 /\ Attempts(c) = Len(got[c])
         /\ err[c].res = LastOf(got[c])
         /\ LastOf(got[c]).engine_result # "tesSUCCESS"
         /\ LastOf(got[c]).engine_result \in SeqCodes
               => (Len(got[c]) = retryCfg + 1 /\ err[c].res = got[c][retryCfg + 1])

C11_Witness ==
  \E c \in Calls :
    /\ retryCfg >= 1
    /\ pc[c] = "done" /\ outcome[c] = "error"
    /\ Len(got[c]) = retryCfg + 1
    /\ got[c][1] # LastOf(got[c])
    /\ err[c] = EngineError(LastOf(got[c]))

CollaboratorKinds == {"fetch", "sign", "submit"}

\* C12: when the fetch function, the signer or submitTransaction raises, the
\* call ends with that error as it was raised, after no further resolution
\* or attempt and with the budget as the sequence errors before it left it,
\* and the account's cache entry is absent when the error reaches the caller.
C12_CollaboratorErrorPropagates ==
  \A c \in Calls :
    err[c].kind \in CollaboratorKinds
      => /\ Ended(c) /\ hash[c] = NoHash /\ outcome[c] # "hash"
         /\ err[c].res = NoRes
         /\ \A i \in 1..Len(got[c]) : got[c][i].engine_result \in SeqCodes
         /\ retry[c] = configured - Len(got[c])
         /\ retry[c] >= 0
         /\ Len(reads[c]) = Len(got[c]) + 1
         /\ err[c].kind = "fetch"
              => (Len(seqs[c]) = Len(got[c]) /\ Attempts(c) = Len(got[c]))
         /\ err[c].kind = "sign"
              => (Len(seqs[c]) = Len(got[c]) + 1 /\ Attempts(c) = Len(got[c]))
         /\ err[c].kind = "submit"
              => (Len(seqs[c]) = Len(got[c]) + 1 /\ Attempts(c) = Len(got[c]) + 1)
         /\ pc[c] = "done" => (outcome[c] = "error" /\ cacheAtEnd[c] = Absent)

C12_Witness ==
  \E c, d \in Calls :
    /\ err[c].kind = "submit" /\ Len(got[c]) = 1 /\ retry[c] = 0
    /\ seqs[c][2].fetched
    /\ pc[c] = "done" /\ outcome[c] = "error" /\ cacheAtEnd[c] = Absent
    /\ err[d].kind = "fetch" /\ pc[d] = "done"

\* C13: the transaction description handed to submit keeps the fields and
\* values it was built with, through every iteration and after submit has
\* returned or raised, while the blobs sent carry the resolved sequences.
C13_CallerObjectUntouched ==
  \A c \in Calls :
    pc[c] # "idle"
      => /\ tx[c] = given[c]
         /\ tx[c].Sequence = Absent
         /\ \A k \in 1..Attempts(c) : sent[c][k].Sequence # tx[c].Sequence

C13_Witness ==
  \E c, d \in Calls :
    /\ Attempts(c) = 2 /\ sent[c][1].Sequence # sent[c][2].Sequence
    /\ pc[c] = "done" /\ outcome[c] = "hash" /\ tx[c] = given[c]
    /\ Attempts(d) = 2
    /\ pc[d] = "done" /\ outcome[d] = "error" /\ tx[d] = given[d]

\* sequence errors the loop of the call has classified
SeqErrors(c) ==
  Cardinality({i \in 1..Len(got[c]) : got[c][i].engine_result \in SeqCodes})

\* C14: the configured retry budget is never modified, and the local budget
\* of every invocation is the configured one less its own sequence errors,
\* whatever other invocations, running with it or before it, have used up.
C14_BudgetPerInvocation ==
  /\ retryCfg = configured
  /\ \A c \in Calls :
       pc[c] # "idle"
         => /\ retry[c] = configured - SeqErrors(c)
            /\ Len(got[c]) = 0 => retry[c] = configured

C14_Witness ==
  \E c, d \in Calls :
    /\ configured >= 1
    /\ pred[c] = d
    /\ pc[d] = "done" /\ outcome[d] = "error" /\ retry[d] = -1
    /\ pc[c] = "done" /\ outcome[c] = "hash" /\ Attempts(c) = configured + 1
    /\ retryCfg = configured

\* fetches the call made that were answered
Misses(c) == Cardinality({k \in 1..Len(seqs[c]) : seqs[c][k].fetched})

\* the call ran with no other call of its account in flight and was accepted
\* on its first attempt
Smooth(c) == outcome[c] = "hash" /\ Attempts(c) = 1 /\ peers[c] = {}

CallsOf(a) == {c \in Calls : pc[c] # "idle" /\ Account(c) = a}

\* every call of the account so far ran with no other call of it in flight
Sequential(a) == \A c \in CallsOf(a) : peers[c] = {}

\* no call of the account is in flight
Quiet(a) == \A c \in CallsOf(a) : pc[c] = "done"

\* C16: when the calls for an account are issued one after another against
\* the ledger node, then after every completed call, returned or raised, the
\* account's cache entry is absent or the account's next on-ledger sequence.
C16_SequentialCacheExact ==
  \A a \in Accounts :
    (Sequential(a) /\ Quiet(a)) => (cache[a] = Absent \/ cache[a] = ledger[a])

C16_Witness ==
  \E a \in Accounts : \E c, d \in CallsOf(a) :
    /\ Sequential(a) /\ Quiet(a)
    /\ pred[d] = c
    /\ outcome[c] = "error" /\ accepts[c] = 1
    /\ outcome[d] = "hash"
    /\ lastDone[a] = d
    /\ cache[a] = ledger[a] /\ ledger[a] = 3

\* C17 as stated: once every call of an account has completed, the account's
\* cache entry is absent or the account's next on-ledger sequence.
C17_Original ==
  \A a \in Accounts :
    Quiet(a) => (cache[a] = Absent \/ cache[a] = ledger[a])

\* C17 amended: once every call of an account has completed, the account's
\* cache entry is absent or not below the account's next on-ledger sequence:
\* a late fetch result written over a newer value does not outlast its call,
\* while advances applied after another call's fetch can leave the entry
\* above the ledger.
C17_NeverBelowLedger ==
  \A a \in Accounts :
    Quiet(a) => (cache[a] = Absent \/ cache[a] >= ledger[a])

C17_Witness ==
  \E a \in Accounts : \E c, d \in CallsOf(a) :
    /\ Quiet(a)
    /\ d \in peers[c]
    /\ outcome[c] = "hash" /\ outcome[d] = "hash"
    /\ seqs[c][1].fetched /\ seqs[c][1].sequence < nextAtRead[c]
    /\ got[c][1].engine_result = "tefPAST_SEQ"
    /\ cache[a] = ledger[a]

\* C18: a call reads, writes, advances and clears the cache entry of its own
\* account alone: every entry is as the calls of its own account left it,
\* whatever calls of other accounts did, and the entry of an account no call
\* was issued for is absent.
C18_OwnEntryOnly ==
  /\ cache = own
  /\ \A a \in Accounts : CallsOf(a) = {} => cache[a] = Absent

C18_Witness ==
  \E c, d \in Calls :
    /\ pc[c] = "done" /\ pc[d] = "done"
    /\ Account(c) # Account(d)
    /\ outcome[c] = "error" /\ Attempts(c) = 2
    /\ outcome[d] = "hash" /\ pred[d] = 0
    /\ lastDone[Account(d)] = d /\ lastDone[Account(c)] = c
    /\ cache[Account(c)] = Absent
    /\ cache[Account(d)] = LastOf(sent[d]).Sequence + 1

\* C19: sendRawTransaction hands its blob to submitTransaction once and never
\* again; it returns the response's hash when the engine result is
\* tesSUCCESS and raises an error carrying the response for every other
\* engine result, the sequence errors included; no step of it changes the
\* sequence cache.
C19_RawSubmitsOnce ==
  /\ cache = own
  /\ \A r \in Raws :
       /\ raw[r].sends = IF raw[r].pc = "idle" THEN 0 ELSE 1
       /\ raw[r].pc \in {"idle", "submitSent"}
            => (raw[r].hash = NoHash /\ raw[r].err = NoErr)
       /\ (raw[r].pc = "done" /\ raw[r].res # NoRes)
            => /\ raw[r].res.engine_result = "tesSUCCESS"
                    => (raw[r].hash = raw[r].res.hash /\ raw[r].err = NoErr)
               /\ raw[r].res.engine_result \notin {"tesSUCCESS", "noResult"}
                    => (raw[r].hash = NoHash
                          /\ raw[r].err = [kind |-> "engine", res |-> raw[r].res])
               /\ raw[r].res = NoResult
                    => (raw[r].hash = NoHash /\ raw[r].err.kind = "type")
       /\ (raw[r].pc = "done" /\ raw[r].res = NoRes)
            => (raw[r].hash = NoHash /\ raw[r].err.kind = "submit")

C19_Witness ==
  \E q, r \in Raws : \E c \in Calls :
    /\ raw[q].pc = "done" /\ raw[q].res.engine_result = "tefPAST_SEQ"
    /\ raw[q].err.kind = "engine" /\ raw[q].sends = 1
    /\ raw[r].pc = "done" /\ raw[r].hash = MaxHash
    /\ pc[c] = "returned" /\ raw[q].blob.Account = Account(c)
    /\ cache[Account(c)] # Absent

====
